---- MODULE Spec2Model ----
(***************************************************************************)
(* Spendline: the route handlers of src/app/api (months, expenses, assets, *)
(* goals) over the hosted row store, and the goal-progress derivation of   *)
(* the dashboard.                                                          *)
(*                                                                         *)
(* Strings are sequences of one-character strings, so that trim(), the     *)
(* month pattern and toUpperCase() are computed character by character.    *)
(* Money amounts are integers counted in hundredths (1 stands for 0.01).   *)
(* A JavaScript Number is a record: a finite value, NaN or Infinity.       *)
(***************************************************************************)
EXTENDS Integers, Sequences, FiniteSets, TLC

VARIABLES
    goals,      \* table saving_goals: a set of rows
    expenses,   \* table expenses
    assets,     \* table asset_events
    months,     \* table months
    ids,        \* the store's id sequences, one per table
    inflight,   \* goals PATCH (add progress) requests between their two store calls
    nreq,       \* requests received so far; the server's clock
    last,       \* the request answered last, and its response
    hist,       \* history: per goal id, what the endpoint has done to it
    calc,       \* one add-progress request run on a one-row table (SpecCap)
    dash,       \* the dashboard page's state, per browser tab
    view,       \* what the page derived from its lists when it rendered last
    ui          \* the page's busy flags and the requests its actions have in flight

vars == <<goals, expenses, assets, months, ids, inflight, nreq, last, hist, calc, dash, view, ui>>

(***************************************************************************)
(* Bounds of the model.                                                    *)
(***************************************************************************)
MaxReq == 2        \* requests per run of the whole API
MaxGoalReq == 3    \* requests per run of the goals endpoints alone
MaxAmount == 10    \* largest saved, target and added amount of SpecCap
MaxDashReq == 3    \* actions of the dashboard page per run
MaxExpenses == 51  \* expenses a month holds when the page is opened
MaxSpentReq == 3   \* actions of the page on such a month
MaxApiDashReq == 5 \* actions of the page that goes through the API
MaxGoals == 3      \* goals a month holds when the page renders
MaxPolicyReq == 3  \* requests and page actions on the store without a policy
MaxUiReq == 4      \* presses of the page's expense buttons per run
MaxViewLoads == 1  \* loads of the page before it renders

(***************************************************************************)
(* Strings.                                                                *)
(***************************************************************************)
Digits == {"0", "1", "2", "3", "4", "5", "6", "7", "8", "9"}

EmptyStr == << >>

S_2024_01 == <<"2", "0", "2", "4", "-", "0", "1">>
S_2024_12 == <<"2", "0", "2", "4", "-", "1", "2">>
S_2024_13 == <<"2", "0", "2", "4", "-", "1", "3">>
S_GHS == <<"G", "H", "S">>
S_usd == <<"u", "s", "d">>
S_USD == <<"U", "S", "D">>
S_Fund == <<"F", "u", "n", "d">>
S_Fund_padded == <<" ", "F", "u", "n", "d", " ">>
S_Car == <<"C", "a", "r">>
S_Blank == <<" ", " ">>
S_Food == <<"F", "o", "o", "d">>
S_abc == <<"a", "b", "c">>

RECURSIVE TrimLeft(_)
TrimLeft(s) == IF s # << >> /\ Head(s) = " " THEN TrimLeft(Tail(s)) ELSE s

RECURSIVE TrimRight(_)
TrimRight(s) ==
    IF s # << >> /\ s[Len(s)] = " " THEN TrimRight(SubSeq(s, 1, Len(s) - 1)) ELSE s

\* String.prototype.trim
Trim(s) == TrimRight(TrimLeft(s))

UpperOf(c) ==
    CASE c = "u" -> "U"
      [] c = "s" -> "S"
      [] c = "d" -> "D"
      [] c = "g" -> "G"
      [] c = "h" -> "H"
      [] OTHER -> c

\* String.prototype.toUpperCase
ToUpperCase(s) == [i \in 1..Len(s) |-> UpperOf(s[i])]

\* /^\d{4}-(0[1-9]|1[0-2])$/.test(month)
MonthPatternTest(s) ==
    /\ Len(s) = 7
    /\ \A i \in 1..4 : s[i] \in Digits
    /\ s[5] = "-"
    /\ \/ s[6] = "0" /\ s[7] \in Digits \ {"0"}
       \/ s[6] = "1" /\ s[7] \in {"0", "1", "2"}

(***************************************************************************)
(* JSON values of a request body or query string, and JavaScript numbers.  *)
(***************************************************************************)
Absent == [t |-> "absent", v |-> 0, s |-> << >>]    \* the field is not there
JNull == [t |-> "null", v |-> 0, s |-> << >>]
JNum(k) == [t |-> "num", v |-> k, s |-> << >>]
JInf == [t |-> "inf", v |-> 0, s |-> << >>]         \* 1e999: JSON.parse gives Infinity
JStr(x) == [t |-> "str", v |-> 0, s |-> x]

NaN == [k |-> "nan", v |-> 0]
Infinity == [k |-> "inf", v |-> 0]
Fin(x) == [k |-> "fin", v |-> x]

\* Number(x) for the values above: undefined -> NaN, null -> 0, "" and blank -> 0,
\* a string that is no numeral -> NaN.
ToNumber(x) ==
    CASE x.t = "absent" -> NaN
      [] x.t = "null" -> Fin(0)
      [] x.t = "num" -> Fin(x.v)
      [] x.t = "inf" -> Infinity
      [] x.t = "str" -> IF Trim(x.s) = << >> THEN Fin(0) ELSE NaN

IsFinite(num) == num.k = "fin"

\* x != null
NotNullish(x) == x.t \notin {"absent", "null"}

\* the truthiness of x, as in (x || d) and (x ? a : b)
Truthy(x) ==
    CASE x.t = "absent" -> FALSE
      [] x.t = "null" -> FALSE
      [] x.t = "num" -> x.v # 0
      [] x.t = "inf" -> TRUE
      [] x.t = "str" -> x.s # << >>

\* String(x || d), for a field that is a string or is missing
StringOr(x, d) == IF Truthy(x) THEN x.s ELSE d

(***************************************************************************)
(* Requests.  A request carries an Authorization header (the session       *)
(* cookie, for the expenses handlers) and a body or a query string.        *)
(***************************************************************************)
Users == {"A", "B"}
NoUser == "none"
NoToken == "none"

NoHeader == [scheme |-> "none", token |-> NoToken]
Bearer(tok) == [scheme |-> "Bearer", token |-> tok]
Headers == {NoHeader, Bearer("stale"), Bearer("tA"), Bearer("tB")}

\* the Session/Token Provider: sb.auth.getUser(token)
GetUser(token) ==
    CASE token = "tA" -> "A"
      [] token = "tB" -> "B"
      [] OTHER -> NoUser

getBearer(h) == IF h.scheme = "Bearer" THEN h.token ELSE NoToken

\* the gate with the provider's verdict ignored: the holder of a stale token of
\* user A passes as A
authedSupabase_Unverified(h) ==
    LET token == getBearer(h) IN
    IF token = NoToken THEN [user |-> NoUser, error |-> "Unauthorized"]
    ELSE [user |-> IF GetUser(token) = NoUser THEN "A" ELSE GetUser(token),
          error |-> "none"]

\* the authorization gate of the months, assets and goals handlers
authedSupabase(h) ==
    LET token == getBearer(h) IN
    IF token = NoToken THEN [user |-> NoUser, error |-> "Unauthorized"]
    ELSE IF GetUser(token) = NoUser THEN [user |-> NoUser, error |-> "Unauthorized"]
    ELSE [user |-> GetUser(token), error |-> "none"]

\* the gate of the expenses handlers: supabase.auth.getUser() on the session cookie
cookieGetUser(h) ==
    IF GetUser(h.token) = NoUser THEN [user |-> NoUser, error |-> "Unauthorized"]
    ELSE [user |-> GetUser(h.token), error |-> "none"]

\* a body that JSON.parse accepts, with every field missing
NoFields ==
    [parsable |-> TRUE, month |-> Absent, id |-> Absent, title |-> Absent,
     target_amount |-> Absent, add_amount |-> Absent, amount |-> Absent,
     category |-> Absent, description |-> Absent, note |-> Absent,
     currency |-> Absent, budget |-> Absent]

\* a body that req.json() rejects
Unparsable == [NoFields EXCEPT !.parsable = FALSE]

(***************************************************************************)
(* Responses.                                                              *)
(***************************************************************************)
NoRows == << >>

Response(status, error, data, calls) ==
    [status |-> status, error |-> error, data |-> data, calls |-> calls]

\* jsonError(message, status = 400)
jsonError(message, status, calls) == Response(status, message, NoRows, calls)

Json(data, calls) == Response(200, "none", data, calls)

NoRequest ==
    [op |-> "none", hdr |-> NoHeader, req |-> NoFields,
     status |-> 0, error |-> "none", data |-> NoRows, calls |-> 0]

Answer(op, h, req, r) ==
    [op |-> op, hdr |-> h, req |-> req,
     status |-> r.status, error |-> r.error, data |-> r.data, calls |-> r.calls]

(***************************************************************************)
(* The row store: filters, ordering and the page limit of a select.        *)
(***************************************************************************)
PageSize == 200

\* the filter on user_id left out
WhereUserMonth_AnyOwner(rows, user, month) ==
    {r \in rows : r.month = month}

\* .eq("user_id", user).eq("month", month)
WhereUserMonth(rows, user, month) ==
    {r \in rows : r.user_id = user /\ r.month = month}

\* the filter on user_id left out
WhereIdUser_AnyOwner(rows, id, user) ==
    {r \in rows : r.id = id}

\* .eq("id", id).eq("user_id", user)
WhereIdUser(rows, id, user) ==
    {r \in rows : r.id = id /\ r.user_id = user}

\* .order("created_at", { ascending: false }); rows created at the same instant
\* are ordered by id
RECURSIVE OrderNewestFirst(_)
OrderNewestFirst(rows) ==
    IF rows = {} THEN << >>
    ELSE LET top == CHOOSE r \in rows : \A q \in rows :
                        \/ r.created_at > q.created_at
                        \/ r.created_at = q.created_at /\ r.id >= q.id
         IN <<top>> \o OrderNewestFirst(rows \ {top})

\* .limit(k)
Limit(seq, k) == SubSeq(seq, 1, IF Len(seq) < k THEN Len(seq) ELSE k)

Min(a, b) == IF a < b THEN a ELSE b
Max(a, b) == IF a > b THEN a ELSE b

\* new Date().toISOString() of the request being received
Now == nreq + 1

(***************************************************************************)
(* src/app/api/goals/route.ts                                              *)
(***************************************************************************)
\* Each handler is an operator from the request and the table to
\* [resp, rows, pend]: the response, the table after the store calls, and
\* (goals PATCH only) the request's locals while it awaits its second call.
NoPend == [user |-> NoUser, id |-> 0, add_amount |-> 0, saved |-> 0, target |-> 0,
           now |-> 0, hdr |-> NoHeader, req |-> NoFields]

Done(resp, rows) == [resp |-> resp, rows |-> rows, pend |-> NoPend]

goalsGET(h, q, rows) ==
    LET a == authedSupabase(h) IN
    IF a.error # "none" \/ a.user = NoUser THEN jsonError("Unauthorized", 401, 0)
    ELSE IF ~Truthy(q.month) THEN jsonError("Missing month", 400, 0)
    ELSE Json(Limit(OrderNewestFirst(WhereUserMonth(rows, a.user, q.month.s)),
                    PageSize), 1)

goalsPOST(h, body, rows, newId, now) ==
    LET a == authedSupabase(h)
        month == Trim(StringOr(body.month, << >>))
        title == Trim(StringOr(body.title, << >>))
        target_amount == ToNumber(body.target_amount)
        row == [id |-> newId, user_id |-> a.user, month |-> month, title |-> title,
                target_amount |-> target_amount.v, saved_amount |-> 0,
                created_at |-> now, updated_at |-> now]
    IN
    IF a.error # "none" \/ a.user = NoUser
        THEN Done(jsonError("Unauthorized", 401, 0), rows)
    ELSE IF ~body.parsable THEN Done(jsonError("Invalid JSON body", 400, 0), rows)
    ELSE IF ~MonthPatternTest(month) THEN Done(jsonError("Invalid month", 400, 0), rows)
    ELSE IF title = << >> THEN Done(jsonError("Missing title", 400, 0), rows)
    ELSE IF ~IsFinite(target_amount) \/ target_amount.v <= 0
        THEN Done(jsonError("Invalid target_amount", 400, 0), rows)
    ELSE Done(Json(<<row>>, 1), rows \cup {row})

\* the cap left out
AddProgressNewSaved_Uncapped(saved, target, add_amount) == saved + add_amount

\* const capped = target > 0 ? Math.min(add_amount, Math.max(0, target - saved))
\*                           : add_amount;  const newSaved = saved + capped;
AddProgressNewSaved(saved, target, add_amount) ==
    LET capped == IF target > 0 THEN Min(add_amount, Max(0, target - saved))
                  ELSE add_amount
    IN saved + capped

\* an update that leaves only the rows it patched in the table
UpdateGoals_OnlyPatched(rows, hit, patched) ==
    [rows |-> patched, returned |-> patched]

\* .update(patch).eq("id", id).eq("user_id", user).select(...).single(): the
\* table after the rows hit by the filters are replaced by their patched
\* versions, and the rows the update returned
UpdateGoals(rows, hit, patched) ==
    [rows |-> (rows \ hit) \cup patched, returned |-> patched]

\* .single(): one row, or the store's error
SingleError == "JSON object requested, multiple (or no) rows returned"

\* goals PATCH up to its first await on the store
goalsPATCH(h, body, rows, now) ==
    LET a == authedSupabase(h)
        id == ToNumber(body.id)
        add_amount == ToNumber(body.add_amount)
        existing == WhereIdUser(rows, id.v, a.user)
        title == IF NotNullish(body.title) THEN Trim(body.title.s) ELSE << >>
        target_amount == ToNumber(body.target_amount)
        Patch(r) ==
            [r EXCEPT !.updated_at = now,
                      !.title = IF NotNullish(body.title) THEN title ELSE @,
                      !.target_amount =
                          IF NotNullish(body.target_amount) THEN target_amount.v ELSE @]
        hit == WhereIdUser(rows, id.v, a.user)
        up == UpdateGoals(rows, hit, {Patch(r) : r \in hit})
    IN
    IF a.error # "none" \/ a.user = NoUser
        THEN Done(jsonError("Unauthorized", 401, 0), rows)
    ELSE IF ~body.parsable THEN Done(jsonError("Invalid JSON body", 400, 0), rows)
    ELSE IF ~IsFinite(id) \/ id.v <= 0 THEN Done(jsonError("Invalid id", 400, 0), rows)
    ELSE IF NotNullish(body.add_amount) THEN
        \* add progress
        IF ~IsFinite(add_amount) \/ add_amount.v <= 0
            THEN Done(jsonError("Invalid add_amount", 400, 0), rows)
        ELSE IF Cardinality(existing) # 1
            THEN Done(jsonError(SingleError, 500, 1), rows)
        ELSE LET e == CHOOSE r \in existing : TRUE IN
             [resp |-> jsonError("none", 0, 1), rows |-> rows,
              pend |-> [user |-> a.user, id |-> id.v, add_amount |-> add_amount.v,
                        saved |-> e.saved_amount, target |-> e.target_amount,
                        now |-> now, hdr |-> h, req |-> body]]
    ELSE
        \* edit
        IF NotNullish(body.title) /\ title = << >>
            THEN Done(jsonError("Invalid title", 400, 0), rows)
        ELSE IF NotNullish(body.target_amount)
                /\ (~IsFinite(target_amount) \/ target_amount.v <= 0)
            THEN Done(jsonError("Invalid target_amount", 400, 0), rows)
        ELSE IF Cardinality(up.returned) # 1
            THEN Done(jsonError(SingleError, 500, 1), up.rows)
        ELSE Done(Json(<<CHOOSE r \in up.returned : TRUE>>, 1), up.rows)

\* goals PATCH (add progress) from its second store call on
goalsPATCHupdate(p, rows) ==
    LET newSaved == AddProgressNewSaved(p.saved, p.target, p.add_amount)
        Patch(r) == [r EXCEPT !.saved_amount = newSaved, !.updated_at = p.now]
        hit == WhereIdUser(rows, p.id, p.user)
        up == UpdateGoals(rows, hit, {Patch(r) : r \in hit})
    IN
    IF Cardinality(up.returned) # 1
        THEN Done(jsonError(SingleError, 500, 2), up.rows)
    ELSE Done(Json(<<CHOOSE r \in up.returned : TRUE>>, 2), up.rows)

\* a delete that asks the store for the row it deleted, as with .select().single()
goalsDELETE_Single(h, q, rows) ==
    LET a == authedSupabase(h)
        id == ToNumber(q.id)
        hit == WhereIdUser(rows, id.v, a.user)
    IN
    IF a.error # "none" \/ a.user = NoUser
        THEN Done(jsonError("Unauthorized", 401, 0), rows)
    ELSE IF ~IsFinite(id) \/ id.v <= 0 THEN Done(jsonError("Invalid id", 400, 0), rows)
    ELSE IF hit = {} THEN Done(jsonError(SingleError, 500, 1), rows)
    ELSE Done(Json(NoRows, 1), rows \ hit)

goalsDELETE(h, q, rows) ==
    LET a == authedSupabase(h)
        id == ToNumber(q.id)
    IN
    IF a.error # "none" \/ a.user = NoUser
        THEN Done(jsonError("Unauthorized", 401, 0), rows)
    ELSE IF ~IsFinite(id) \/ id.v <= 0 THEN Done(jsonError("Invalid id", 400, 0), rows)
    ELSE Done(Json(NoRows, 1), rows \ WhereIdUser(rows, id.v, a.user))

(***************************************************************************)
(* src/app/api/expenses/route.ts                                           *)
(***************************************************************************)
\* function n(x): Number(x) when finite, else 0
n(x) == IF IsFinite(ToNumber(x)) THEN ToNumber(x).v ELSE 0

\* the comparison made strict: amount < 0
AmountNotPositive_Strict(amount) == amount < 0

\* if (amount <= 0) return ... "Amount must be > 0"
AmountNotPositive(amount) == amount <= 0

\* body?.category ? String(body.category) : null
StringOrNull(x) == IF Truthy(x) THEN JStr(x.s) ELSE JNull

\* the message of the SyntaxError req.json() throws
JsonSyntaxError == "Unexpected token in JSON"

expensesPOST(h, body, rows, newId, now) ==
    LET auth == cookieGetUser(h)
        month == Trim(StringOr(body.month, << >>))
        amount == n(body.amount)
        row == [id |-> newId, user_id |-> auth.user, month |-> month,
                amount |-> amount, category |-> StringOrNull(body.category),
                description |-> StringOrNull(body.description), occurred_at |-> now]
    IN
    IF auth.error # "none" \/ auth.user = NoUser
        THEN Done(jsonError("Unauthorized", 401, 0), rows)
    ELSE IF ~body.parsable THEN Done(jsonError(JsonSyntaxError, 500, 0), rows)
    ELSE IF month = << >> THEN Done(jsonError("Missing month", 400, 0), rows)
    ELSE IF AmountNotPositive(amount)
        THEN Done(jsonError("Amount must be > 0", 400, 0), rows)
    ELSE Done(Json(NoRows, 1), rows \cup {row})

expensesPATCH(h, body, rows) ==
    LET auth == cookieGetUser(h)
        id == n(body.id)
        amount == n(body.amount)
        hit == WhereIdUser(rows, id, auth.user)
        Patch(r) == [r EXCEPT !.amount = amount,
                              !.category = StringOrNull(body.category),
                              !.description = StringOrNull(body.description)]
    IN
    IF auth.error # "none" \/ auth.user = NoUser
        THEN Done(jsonError("Unauthorized", 401, 0), rows)
    ELSE IF ~body.parsable THEN Done(jsonError(JsonSyntaxError, 500, 0), rows)
    ELSE IF id = 0 THEN Done(jsonError("Missing id", 400, 0), rows)
    ELSE IF AmountNotPositive(amount)
        THEN Done(jsonError("Amount must be > 0", 400, 0), rows)
    ELSE Done(Json(NoRows, 1), (rows \ hit) \cup {Patch(r) : r \in hit})

\* The route module exports POST, PATCH and DELETE and no GET: the framework
\* answers a GET of /api/expenses itself, 405 Method Not Allowed with an empty
\* body, and no handler of the module runs.
expensesGET(h, q, rows) == Response(405, "", NoRows, 0)

expensesDELETE(h, q, rows) ==
    LET auth == cookieGetUser(h)
        id == n(q.id)
    IN
    IF auth.error # "none" \/ auth.user = NoUser
        THEN Done(jsonError("Unauthorized", 401, 0), rows)
    ELSE IF id = 0 THEN Done(jsonError("Missing id", 400, 0), rows)
    ELSE Done(Json(NoRows, 1), rows \ WhereIdUser(rows, id, auth.user))

(***************************************************************************)
(* src/app/api/assets/route.ts, the route handlers                         *)
(***************************************************************************)
assetsGET(h, q, rows) ==
    LET a == authedSupabase(h) IN
    IF a.error # "none" \/ a.user = NoUser THEN jsonError("Unauthorized", 401, 0)
    ELSE IF ~Truthy(q.month) THEN jsonError("Missing month", 400, 0)
    ELSE Json(Limit(OrderNewestFirst(WhereUserMonth(rows, a.user, q.month.s)),
                    PageSize), 1)

assetsPOST(h, body, rows, newId, now) ==
    LET a == authedSupabase(h)
        month == Trim(StringOr(body.month, << >>))
        amount == ToNumber(body.amount)
        note == IF NotNullish(body.note) THEN JStr(body.note.s) ELSE JNull
        row == [id |-> newId, user_id |-> a.user, month |-> month,
                amount |-> amount.v, note |-> note, created_at |-> now]
    IN
    IF a.error # "none" \/ a.user = NoUser
        THEN Done(jsonError("Unauthorized", 401, 0), rows)
    ELSE IF ~body.parsable THEN Done(jsonError("Invalid JSON body", 400, 0), rows)
    ELSE IF ~MonthPatternTest(month) THEN Done(jsonError("Invalid month", 400, 0), rows)
    ELSE IF ~IsFinite(amount) \/ amount.v <= 0
        THEN Done(jsonError("Invalid amount", 400, 0), rows)
    ELSE Done(Json(<<row>>, 1), rows \cup {row})

\* the id of the query string is text: the digits of a row id, or nothing
assetsDELETE(h, q, rows) ==
    LET a == authedSupabase(h) IN
    IF a.error # "none" \/ a.user = NoUser
        THEN Done(jsonError("Unauthorized", 401, 0), rows)
    ELSE IF q.id.t # "num" THEN Done(jsonError("Invalid id", 400, 0), rows)
    ELSE Done(Json(NoRows, 1), rows \ WhereIdUser(rows, q.id.v, a.user))

(***************************************************************************)
(* src/app/api/months/route.ts                                             *)
(***************************************************************************)
\* the default shape months GET returns when the month has no row
DefaultMonth(user, month) ==
    [id |-> 0, user_id |-> user, month |-> month, currency |-> S_GHS,
     budget |-> 0, assets |-> 0, liabilities |-> 0]

\* the columns months GET and PUT select
MonthColumns(r) ==
    [id |-> r.id, user_id |-> r.user_id, month |-> r.month, currency |-> r.currency,
     budget |-> r.budget, assets |-> r.assets, liabilities |-> r.liabilities]

monthsGET(h, q, rows) ==
    LET a == authedSupabase(h)
        hit == WhereUserMonth(rows, a.user, q.month.s)
    IN
    IF a.error # "none" \/ a.user = NoUser THEN jsonError("Unauthorized", 401, 0)
    ELSE IF ~Truthy(q.month) THEN jsonError("Missing month", 400, 0)
    ELSE IF Cardinality(hit) > 1 THEN jsonError(SingleError, 500, 1)
    ELSE IF hit = {} THEN Json(<<DefaultMonth(a.user, q.month.s)>>, 1)
    ELSE Json(<<MonthColumns(CHOOSE r \in hit : TRUE)>>, 1)

\* an upsert whose conflict target is user_id alone: every row of the user
\* takes the payload's columns
Upsert_UserOnly(rows, payload, newId) ==
    LET hit == {r \in rows : r.user_id = payload.user_id}
        Merge(r) == [r EXCEPT !.currency = payload.currency,
                              !.budget = payload.budget,
                              !.updated_at = payload.updated_at]
        fresh == [id |-> newId, user_id |-> payload.user_id, month |-> payload.month,
                  currency |-> payload.currency, budget |-> payload.budget,
                  assets |-> 0, liabilities |-> 0, updated_at |-> payload.updated_at]
    IN
    IF hit = {} THEN [rows |-> rows \cup {fresh}, returned |-> {fresh}]
    ELSE [rows |-> (rows \ hit) \cup {Merge(r) : r \in hit},
          returned |-> {Merge(r) : r \in hit}]

\* a plain insert in the place of the upsert: the payload always makes a new row
Upsert_InsertAlways(rows, payload, newId) ==
    LET fresh == [id |-> newId, user_id |-> payload.user_id, month |-> payload.month,
                  currency |-> payload.currency, budget |-> payload.budget,
                  assets |-> 0, liabilities |-> 0, updated_at |-> payload.updated_at]
    IN [rows |-> rows \cup {fresh}, returned |-> {fresh}]

\* .upsert(payload, { onConflict: "user_id,month" }): the row of (user_id, month)
\* takes the payload's columns; a new row takes the store's defaults for the rest
Upsert(rows, payload, newId) ==
    LET hit == WhereUserMonth(rows, payload.user_id, payload.month)
        Merge(r) == [r EXCEPT !.currency = payload.currency,
                              !.budget = payload.budget,
                              !.updated_at = payload.updated_at]
        fresh == [id |-> newId, user_id |-> payload.user_id, month |-> payload.month,
                  currency |-> payload.currency, budget |-> payload.budget,
                  assets |-> 0, liabilities |-> 0, updated_at |-> payload.updated_at]
    IN
    IF hit = {} THEN [rows |-> rows \cup {fresh}, returned |-> {fresh}]
    ELSE [rows |-> (rows \ hit) \cup {Merge(r) : r \in hit},
          returned |-> {Merge(r) : r \in hit}]

monthsPUT(h, body, rows, newId, now) ==
    LET a == authedSupabase(h)
        month == Trim(StringOr(body.month, << >>))
        currency == ToUpperCase(Trim(StringOr(body.currency, S_GHS)))
        budget == ToNumber(body.budget)
        payload == [user_id |-> a.user, month |-> month, currency |-> currency,
                    budget |-> budget.v, updated_at |-> now]
        up == Upsert(rows, payload, newId)
    IN
    IF a.error # "none" \/ a.user = NoUser
        THEN Done(jsonError("Unauthorized", 401, 0), rows)
    ELSE IF ~body.parsable THEN Done(jsonError("Invalid JSON body", 400, 0), rows)
    ELSE IF ~MonthPatternTest(month) THEN Done(jsonError("Invalid month", 400, 0), rows)
    ELSE IF ~IsFinite(budget) \/ budget.v < 0
        THEN Done(jsonError("Invalid budget", 400, 0), rows)
    ELSE IF Cardinality(up.returned) # 1
        THEN Done(jsonError(SingleError, 500, 1), up.rows)
    ELSE Done(Json(<<MonthColumns(CHOOSE r \in up.returned : TRUE)>>, 1), up.rows)

(***************************************************************************)
(* The requests the model sends: per handler, the well-formed bodies and   *)
(* bodies with one field missing or out of range.                          *)
(***************************************************************************)
M01 == JStr(S_2024_01)
M12 == JStr(S_2024_12)
M13 == JStr(S_2024_13)

ListQueries == {[NoFields EXCEPT !.month = m] : m \in {JNull, M01, M12}}
DeleteQueries == {[NoFields EXCEPT !.id = i] : i \in {JNull, JNum(1), JNum(2)}}

GoalNew(m, t, x) == [NoFields EXCEPT !.month = m, !.title = t, !.target_amount = x]
GoalEdit(i, t, x) == [NoFields EXCEPT !.id = i, !.title = t, !.target_amount = x]
GoalAdd(i, a, x) == [NoFields EXCEPT !.id = i, !.add_amount = a, !.target_amount = x]

GoalsPostBodies ==
    {Unparsable}
    \cup {GoalNew(m, JStr(S_Fund_padded), x) : m \in {M01, M12}, x \in {JNum(2), JNum(3)}}
    \cup {GoalNew(m, JStr(S_Fund), JNum(2)) : m \in {Absent, M13}}
    \cup {GoalNew(M01, t, JNum(2)) : t \in {Absent, JStr(S_Blank)}}
    \cup {GoalNew(M01, JStr(S_Fund), x) : x \in {Absent, JInf, JNum(0), JNum(-1)}}

GoalsPatchBodies ==
    {Unparsable}
    \cup {GoalEdit(i, JStr(S_Car), Absent) : i \in {JNum(1), JNum(2)}}
    \cup {GoalEdit(i, Absent, x) : i \in {JNum(1), JNum(2)},
                                  x \in {Absent, JNum(1), JNum(3)}}
    \cup {GoalEdit(Absent, JStr(S_Car), Absent), GoalEdit(JNum(1), JStr(S_Blank), Absent)}
    \cup {GoalEdit(JNum(1), Absent, x) : x \in {JInf, JNum(0)}}
    \cup {GoalAdd(i, a, Absent) : i \in {JNum(1), JNum(2)}, a \in {JNum(1), JNum(2)}}
    \cup {GoalAdd(Absent, JNum(1), Absent), GoalAdd(JNum(1), JNum(1), JNum(-1))}
    \cup {GoalAdd(JNum(1), a, Absent) : a \in {JStr(S_abc), JNum(-1), JNum(0)}}

ExpenseNew(m, a, c) == [NoFields EXCEPT !.month = m, !.amount = a, !.category = c]
ExpenseEdit(i, a, c) == [NoFields EXCEPT !.id = i, !.amount = a, !.category = c]

ExpensesPostBodies ==
    {Unparsable}
    \cup {ExpenseNew(m, a, JStr(S_Food)) : m \in {M01, M13}, a \in {JNum(1), JNum(2)}}
    \cup {ExpenseNew(M01, JNum(1), Absent), ExpenseNew(Absent, JNum(1), Absent)}
    \cup {ExpenseNew(M01, a, Absent) : a \in {Absent, JInf, JNum(0), JNum(-1)}}

ExpensesPatchBodies ==
    {Unparsable}
    \cup {ExpenseEdit(i, JNum(2), Absent) : i \in {JNum(1), JNum(2)}}
    \cup {ExpenseEdit(i, JNum(1), JStr(S_Food)) : i \in {JNum(1), JNum(2)}}
    \cup {ExpenseEdit(Absent, JNum(1), Absent)}
    \cup {ExpenseEdit(JNum(1), a, Absent) : a \in {Absent, JInf, JNum(0), JNum(-1)}}

AssetNew(m, a) == [NoFields EXCEPT !.month = m, !.amount = a]

AssetsPostBodies ==
    {Unparsable}
    \cup {AssetNew(m, a) : m \in {M01, M12}, a \in {JNum(1), JNum(2)}}
    \cup {AssetNew(m, JNum(1)) : m \in {Absent, M13}}
    \cup {AssetNew(M01, a) : a \in {Absent, JInf, JNum(0), JNum(-1)}}

MonthPut(m, c, b) == [NoFields EXCEPT !.month = m, !.currency = c, !.budget = b]

MonthsPutBodies ==
    {Unparsable}
    \cup {MonthPut(m, Absent, JNum(0)) : m \in {M01, M12}}
    \cup {MonthPut(m, JStr(S_usd), JNum(2)) : m \in {M01, M12}}
    \cup {MonthPut(m, Absent, JNum(2)) : m \in {Absent, M13}}
    \cup {MonthPut(M01, Absent, b) : b \in {Absent, JInf, JNum(-1)}}

\* The dashboard page in a browser tab: its month row, its lists, its error
\* message, and where its load() stands (pc).
Tabs == {"tab1", "tab2"}

NoTab ==
    [pc |-> "idle", monthRow |-> JNull, expenses |-> << >>, assets |-> << >>,
     goals |-> << >>, error |-> "none"]

\* nothing rendered yet
NoView ==
    [rendered |-> FALSE, clock |-> [cmp |-> 0, dayOfMonth |-> 1], spentTotal |-> 0,
     sortedGoals |-> << >>, nextMove |-> [goal |-> 0, kind |-> "none", suggestedAmount |-> 0],
     analytics |-> [daysElapsed |-> 0, dim |-> 0, avgDailySpend |-> 0, projectedSpend |-> 0],
     achievements |-> [track5 |-> FALSE, track10 |-> FALSE, firstAsset |-> FALSE,
                       firstGoal |-> FALSE, goal50 |-> FALSE, goal100 |-> FALSE,
                       tier |-> "Bronze"]]

\* no action is busy and no request is in flight.  savingExpenseId is the set
\* of the values the flag holds: none (null) or one (target 0 stands for "new",
\* any other for the expense of that id); issued and latest are history: the
\* number of loads issued and what the store returned to the last of them
NoUi == [savingExpenseId |-> {}, pending |-> {}, issued |-> 0, latest |-> NoTab]

NoCalc == [saved |-> 0, target |-> 0, add_amount |-> 0, written |-> 0, status |-> 0]

(***************************************************************************)
(* The state machine.                                                      *)
(***************************************************************************)
Init ==
    /\ goals = {}
    /\ expenses = {}
    /\ assets = {}
    /\ months = {}
    /\ ids = [goals |-> 1, expenses |-> 1, assets |-> 1, months |-> 1]
    /\ inflight = {}
    /\ nreq = 0
    /\ last = NoRequest
    /\ hist = << >>
    /\ calc = NoCalc
    /\ dash = [t \in Tabs |-> NoTab]
    /\ view = NoView
    /\ ui = NoUi

GoalsGET ==
    \E h \in Headers, q \in ListQueries :
        /\ last' = Answer("goals.GET", h, q, goalsGET(h, q, goals))
        /\ nreq' = nreq + 1
        /\ UNCHANGED <<goals, expenses, assets, months, ids, inflight, hist, calc, dash, view, ui>>

GoalsPOST ==
    \E h \in Headers, body \in GoalsPostBodies :
        LET out == goalsPOST(h, body, goals, ids.goals, Now) IN
        /\ goals' = out.rows
        /\ last' = Answer("goals.POST", h, body, out.resp)
        /\ IF out.resp.status = 200
              THEN /\ ids' = [ids EXCEPT !.goals = @ + 1]
                   /\ hist' = Append(hist, [target0 |-> out.resp.data[1].target_amount,
                                            sum |-> 0, edited |-> FALSE])
              ELSE UNCHANGED <<ids, hist>>
        /\ nreq' = nreq + 1
        /\ UNCHANGED <<expenses, assets, months, inflight, calc, dash, view, ui>>

\* goals PATCH: an edit runs to its response; an add-progress request runs to
\* its await on the update and is resumed by GoalsPATCHresume
GoalsPATCH ==
    \E h \in Headers, body \in GoalsPatchBodies :
        LET out == goalsPATCH(h, body, goals, Now) IN
        /\ goals' = out.rows
        /\ IF out.pend = NoPend
              THEN /\ last' = Answer("goals.PATCH", h, body, out.resp)
                   /\ UNCHANGED inflight
              ELSE /\ inflight' = inflight \cup {out.pend}
                   /\ UNCHANGED last
        /\ hist' = IF out.pend = NoPend /\ out.resp.status = 200
                      THEN [hist EXCEPT ![out.resp.data[1].id].edited = TRUE]
                      ELSE hist
        /\ nreq' = nreq + 1
        /\ UNCHANGED <<expenses, assets, months, ids, calc, dash, view, ui>>

GoalsPATCHresume ==
    \E p \in inflight :
        LET out == goalsPATCHupdate(p, goals) IN
        /\ goals' = out.rows
        /\ inflight' = inflight \ {p}
        /\ last' = Answer("goals.PATCH", p.hdr, p.req, out.resp)
        /\ hist' = IF out.resp.status = 200
                      THEN [hist EXCEPT ![p.id].sum = @ + p.add_amount]
                      ELSE hist
        /\ UNCHANGED <<expenses, assets, months, ids, nreq, calc, dash, view, ui>>

GoalsDELETE ==
    \E h \in Headers, q \in DeleteQueries :
        LET out == goalsDELETE(h, q, goals) IN
        /\ goals' = out.rows
        /\ last' = Answer("goals.DELETE", h, q, out.resp)
        /\ nreq' = nreq + 1
        /\ UNCHANGED <<expenses, assets, months, ids, inflight, hist, calc, dash, view, ui>>

ExpensesGET ==
    \E h \in Headers, q \in ListQueries :
        /\ last' = Answer("expenses.GET", h, q, expensesGET(h, q, expenses))
        /\ nreq' = nreq + 1
        /\ UNCHANGED <<goals, expenses, assets, months, ids, inflight, hist, calc, dash, view, ui>>

ExpensesPOST ==
    \E h \in Headers, body \in ExpensesPostBodies :
        LET out == expensesPOST(h, body, expenses, ids.expenses, Now) IN
        /\ expenses' = out.rows
        /\ last' = Answer("expenses.POST", h, body, out.resp)
        /\ ids' = IF out.resp.status = 200 THEN [ids EXCEPT !.expenses = @ + 1] ELSE ids
        /\ nreq' = nreq + 1
        /\ UNCHANGED <<goals, assets, months, inflight, hist, calc, dash, view, ui>>

ExpensesPATCH ==
    \E h \in Headers, body \in ExpensesPatchBodies :
        LET out == expensesPATCH(h, body, expenses) IN
        /\ expenses' = out.rows
        /\ last' = Answer("expenses.PATCH", h, body, out.resp)
        /\ nreq' = nreq + 1
        /\ UNCHANGED <<goals, assets, months, ids, inflight, hist, calc, dash, view, ui>>

ExpensesDELETE ==
    \E h \in Headers, q \in DeleteQueries :
        LET out == expensesDELETE(h, q, expenses) IN
        /\ expenses' = out.rows
        /\ last' = Answer("expenses.DELETE", h, q, out.resp)
        /\ nreq' = nreq + 1
        /\ UNCHANGED <<goals, assets, months, ids, inflight, hist, calc, dash, view, ui>>

AssetsGET ==
    \E h \in Headers, q \in ListQueries :
        /\ last' = Answer("assets.GET", h, q, assetsGET(h, q, assets))
        /\ nreq' = nreq + 1
        /\ UNCHANGED <<goals, expenses, assets, months, ids, inflight, hist, calc, dash, view, ui>>

AssetsPOST ==
    \E h \in Headers, body \in AssetsPostBodies :
        LET out == assetsPOST(h, body, assets, ids.assets, Now) IN
        /\ assets' = out.rows
        /\ last' = Answer("assets.POST", h, body, out.resp)
        /\ ids' = IF out.resp.status = 200 THEN [ids EXCEPT !.assets = @ + 1] ELSE ids
        /\ nreq' = nreq + 1
        /\ UNCHANGED <<goals, expenses, months, inflight, hist, calc, dash, view, ui>>

AssetsDELETE ==
    \E h \in Headers, q \in DeleteQueries :
        LET out == assetsDELETE(h, q, assets) IN
        /\ assets' = out.rows
        /\ last' = Answer("assets.DELETE", h, q, out.resp)
        /\ nreq' = nreq + 1
        /\ UNCHANGED <<goals, expenses, months, ids, inflight, hist, calc, dash, view, ui>>

MonthsGET ==
    \E h \in Headers, q \in ListQueries :
        /\ last' = Answer("months.GET", h, q, monthsGET(h, q, months))
        /\ nreq' = nreq + 1
        /\ UNCHANGED <<goals, expenses, assets, months, ids, inflight, hist, calc, dash, view, ui>>

MonthsPUT ==
    \E h \in Headers, body \in MonthsPutBodies :
        LET out == monthsPUT(h, body, months, ids.months, Now) IN
        /\ months' = out.rows
        /\ last' = Answer("months.PUT", h, body, out.resp)
        /\ ids' = IF Cardinality(out.rows) > Cardinality(months)
                     THEN [ids EXCEPT !.months = @ + 1] ELSE ids
        /\ nreq' = nreq + 1
        /\ UNCHANGED <<goals, expenses, assets, inflight, hist, calc, dash, view, ui>>

\* the whole API: the server accepts another request
Open == nreq < MaxReq

Next ==
    \/ Open /\ GoalsGET
    \/ Open /\ GoalsPOST
    \/ Open /\ GoalsPATCH
    \/ GoalsPATCHresume
    \/ Open /\ GoalsDELETE
    \/ Open /\ ExpensesGET
    \/ Open /\ ExpensesPOST
    \/ Open /\ ExpensesPATCH
    \/ Open /\ ExpensesDELETE
    \/ Open /\ AssetsGET
    \/ Open /\ AssetsPOST
    \/ Open /\ AssetsDELETE
    \/ Open /\ MonthsGET
    \/ Open /\ MonthsPUT

Spec == Init /\ [][Next]_vars

\* the goals endpoints alone, requests overlapping freely
OpenGoals == nreq < MaxGoalReq

NextGoals ==
    \/ OpenGoals /\ GoalsGET
    \/ OpenGoals /\ GoalsPOST
    \/ OpenGoals /\ GoalsPATCH
    \/ GoalsPATCHresume
    \/ OpenGoals /\ GoalsDELETE

SpecGoals == Init /\ [][NextGoals]_vars

\* the goals endpoints alone, each request answered before the next is sent
OpenSeq == nreq < MaxGoalReq /\ inflight = {}

NextSeq ==
    \/ OpenSeq /\ GoalsGET
    \/ OpenSeq /\ GoalsPOST
    \/ OpenSeq /\ GoalsPATCH
    \/ GoalsPATCHresume
    \/ OpenSeq /\ GoalsDELETE

SpecSeq == Init /\ [][NextSeq]_vars

\* one add-progress request, find and update, on a table that holds one goal
\* with the given saved and target amounts
InitCap ==
    /\ goals = {}
    /\ expenses = {}
    /\ assets = {}
    /\ months = {}
    /\ ids = [goals |-> 1, expenses |-> 1, assets |-> 1, months |-> 1]
    /\ inflight = {}
    /\ nreq = 0
    /\ last = NoRequest
    /\ hist = << >>
    /\ calc \in {[saved |-> s, target |-> t, add_amount |-> a, written |-> 0, status |-> 0] :
                    s \in 0..MaxAmount, t \in -1..MaxAmount, a \in 1..MaxAmount}
    /\ dash = [t \in Tabs |-> NoTab]
    /\ view = NoView
    /\ ui = NoUi

AddProgressOnce ==
    /\ calc.status = 0
    /\ LET row == [id |-> 1, user_id |-> "A", month |-> S_2024_01, title |-> S_Fund,
                   target_amount |-> calc.target, saved_amount |-> calc.saved,
                   created_at |-> 0, updated_at |-> 0]
           find == goalsPATCH(Bearer("tA"), GoalAdd(JNum(1), JNum(calc.add_amount), Absent),
                              {row}, 1)
           out == goalsPATCHupdate(find.pend, find.rows)
       IN calc' = [calc EXCEPT !.status = out.resp.status,
                               !.written = (CHOOSE r \in out.rows : r.id = 1).saved_amount]
    /\ UNCHANGED <<goals, expenses, assets, months, ids, inflight, nreq, last, hist, dash, view, ui>>

SpecCap == InitCap /\ [][AddProgressOnce]_vars

(***************************************************************************)
(* src/app/api/assets/route.ts, the dashboard's goal helpers               *)
(***************************************************************************)
\* Math.floor in the place of Math.round
MathRound_Floor(num, den) == num \div den

\* Math.round(num / den) for den > 0: the nearest integer, halves upwards
MathRound(num, den) == (2 * num + den) \div (2 * den)

clampPct(v) == Max(0, Min(100, v))

\* Math.round((saved / target) * 100) is taken on the exact quotient
goalProgress(g) ==
    LET target == Max(0, g.target_amount)
        saved == Max(0, g.saved_amount)
    IN [target |-> target,
        saved |-> saved,
        pct |-> IF target <= 0 THEN 0 ELSE clampPct(MathRound(saved * 100, target)),
        remaining |-> Max(0, target - saved),
        complete |-> target > 0 /\ saved >= target]

\* the copy returned as it is, the sort left out
sortedGoals_Unsorted(list) == list

\* copy.sort(cmp) with cmp: a complete goal after an incomplete one, then the
\* higher pct first, then the later created_at first.  The sort is stable:
\* goals that compare equal keep the order of the loaded list.
RECURSIVE sortedGoals(_)
sortedGoals(list) ==
    IF list = << >> THEN << >>
    ELSE LET a == Head(list)
             rest == sortedGoals(Tail(list))
             cmp(b) ==
                 LET pa == goalProgress(a)
                     pb == goalProgress(b)
                 IN IF pa.complete # pb.complete THEN (IF pa.complete THEN 1 ELSE -1)
                    ELSE IF pb.pct # pa.pct THEN pb.pct - pa.pct
                    ELSE b.created_at - a.created_at
             later == {i \in 1..Len(rest) : cmp(rest[i]) <= 0}
             pos == IF later = {} THEN Len(rest) + 1
                    ELSE CHOOSE i \in later : \A j \in later : i <= j
         IN SubSeq(rest, 1, pos - 1) \o <<a>> \o SubSeq(rest, pos, Len(rest))

\* nextMove without its 50% step: the suggestion is always what remains
nextMove_Remaining(sorted) ==
    IF sorted = << >> THEN [goal |-> 0, kind |-> "none", suggestedAmount |-> 0]
    ELSE LET open == {i \in 1..Len(sorted) : ~goalProgress(sorted[i]).complete}
             top == IF open = {} THEN sorted[1]
                    ELSE sorted[CHOOSE i \in open : \A j \in open : i <= j]
             p == goalProgress(top)
         IN [goal |-> top.id, kind |-> IF p.complete THEN "complete" ELSE "finish",
             suggestedAmount |-> Max(0, p.target - p.saved)]

\* nextMove: the first goal of sortedGoals that is not complete, or the first
\* goal; Math.ceil(p.target * 0.5) is a whole number of currency units, written
\* here in hundredths
nextMove(sorted) ==
    IF sorted = << >> THEN [goal |-> 0, kind |-> "none", suggestedAmount |-> 0]
    ELSE LET open == {i \in 1..Len(sorted) : ~goalProgress(sorted[i]).complete}
             top == IF open = {} THEN sorted[1]
                    ELSE sorted[CHOOSE i \in open : \A j \in open : i <= j]
             p == goalProgress(top)
             halfPoint == 100 * ((p.target + 199) \div 200)
         IN
         IF p.target <= 0 THEN [goal |-> top.id, kind |-> "set target", suggestedAmount |-> 0]
         ELSE IF p.complete THEN [goal |-> top.id, kind |-> "complete", suggestedAmount |-> 0]
         ELSE IF p.pct < 50
             THEN [goal |-> top.id, kind |-> "reach 50%",
                   suggestedAmount |-> Max(0, halfPoint - p.saved)]
         ELSE [goal |-> top.id, kind |-> "finish",
               suggestedAmount |-> Max(0, p.target - p.saved)]

\* daysInMonth(ym) for the months of the model's year, 2024
daysInMonth(ym) ==
    LET mm == SubSeq(ym, 6, 7) IN
    CASE mm = <<"0", "2">> -> 29
      [] mm \in {<<"0", "4">>, <<"0", "6">>, <<"0", "9">>, <<"1", "1">>} -> 30
      [] OTHER -> 31

\* analytics: cmp is monthCompare(month, ymNow()), dayOfMonth is today's; the
\* spent total is in hundredths and Math.round gives whole currency units
analytics(month, spent, clock) ==
    LET dim == daysInMonth(month)
        daysElapsed == IF clock.cmp = 0 THEN Max(1, Min(clock.dayOfMonth, dim))
                       ELSE IF clock.cmp < 0 THEN dim ELSE 0
    IN [daysElapsed |-> daysElapsed,
        dim |-> dim,
        avgDailySpend |->
            IF daysElapsed > 0 THEN MathRound(spent, 100 * daysElapsed) ELSE 0,
        projectedSpend |->
            IF daysElapsed > 0 THEN MathRound(spent * dim, 100 * daysElapsed) ELSE 0]

\* achievements: the unlock conditions and the tier
achievements(exps, asts, gls) ==
    LET goal50 == \E i \in 1..Len(gls) :
                      gls[i].target_amount > 0
                          /\ 2 * gls[i].saved_amount >= gls[i].target_amount
        goal100 == \E i \in 1..Len(gls) :
                       gls[i].target_amount > 0
                           /\ gls[i].saved_amount >= gls[i].target_amount
    IN [track5 |-> Len(exps) >= 5,
        track10 |-> Len(exps) >= 10,
        firstAsset |-> Len(asts) >= 1,
        firstGoal |-> Len(gls) >= 1,
        goal50 |-> goal50,
        goal100 |-> goal100,
        tier |-> IF goal100 THEN "Gold" ELSE IF Len(exps) >= 10 THEN "Silver" ELSE "Bronze"]

(***************************************************************************)
(* src/app/dashboard/page.tsx, the dashboard page that reads and writes    *)
(* the store itself.  Its tabs are sessions of one user on one month.      *)
(***************************************************************************)
\* supabase.auth.getUser() in the browser
SessionUser == "A"

\* monthSafe()
DashMonth == S_2024_01

\* .limit(50) of the page's expense and asset lists
UiPageSize == 50

S_Other == <<"O", "t", "h", "e", "r">>

\* .order("occurred_at", { ascending: false })
RECURSIVE OrderLatestFirst(_)
OrderLatestFirst(rows) ==
    IF rows = {} THEN << >>
    ELSE LET top == CHOOSE r \in rows : \A q \in rows :
                        \/ r.occurred_at > q.occurred_at
                        \/ r.occurred_at = q.occurred_at /\ r.id >= q.id
         IN <<top>> \o OrderLatestFirst(rows \ {top})

\* the months table holds one row per (user_id, month): an insert of a second
\* one is refused by the store
DuplicateKey == "duplicate key value violates unique constraint"

InsertMonth(rows, row) ==
    IF WhereUserMonth(rows, row.user_id, row.month) # {}
        THEN [rows |-> rows, error |-> DuplicateKey]
        ELSE [rows |-> rows \cup {row}, error |-> "none"]

\* const spentTotal = expenses.reduce((s, e) => s + n(e.amount), 0)
RECURSIVE spentTotal(_)
spentTotal(list) ==
    IF list = << >> THEN 0 ELSE spentTotal(Tail(list)) + n(JNum(Head(list).amount))

\* load(), from the month row on: the three list selects, run back to back
LoadLists(tab, row, exps, asts, gls) ==
    [tab EXCEPT
        !.pc = "idle",
        !.monthRow = row,
        !.expenses = Limit(OrderLatestFirst(WhereUserMonth(exps, SessionUser, DashMonth)),
                           UiPageSize),
        !.assets = Limit(OrderNewestFirst(WhereUserMonth(asts, SessionUser, DashMonth)),
                         UiPageSize),
        !.goals = OrderNewestFirst(WhereUserMonth(gls, SessionUser, DashMonth))]

\* load(), up to its insert: setError(null), the month row is selected with
\* maybeSingle(); when there is none the page goes on to insert it
LoadMonth(tab, mths, exps, asts, gls) ==
    LET hit == WhereUserMonth(mths, SessionUser, DashMonth) IN
    IF Cardinality(hit) > 1 THEN [tab EXCEPT !.pc = "idle", !.error = SingleError]
    ELSE IF hit = {} THEN [tab EXCEPT !.pc = "insert", !.error = "none"]
    ELSE LoadLists([tab EXCEPT !.error = "none"], MonthColumns(CHOOSE r \in hit : TRUE),
                   exps, asts, gls)

\* the page loads: on mount, and whenever the user comes back to it
DashLoad(t) ==
    /\ dash[t].pc = "idle"
    /\ dash' = [dash EXCEPT ![t] = LoadMonth(@, months, expenses, assets, goals)]
    /\ nreq' = nreq + 1
    /\ UNCHANGED <<goals, expenses, assets, months, ids, inflight, last, hist, calc, view, ui>>

\* load() resumes after its select found no month row: it inserts the default
\* row, and on the store's refusal shows the error and stops
DashLoadInsert(t) ==
    /\ dash[t].pc = "insert"
    /\ LET fresh == [id |-> ids.months, user_id |-> SessionUser, month |-> DashMonth,
                     currency |-> S_GHS, budget |-> 0, assets |-> 0, liabilities |-> 0,
                     updated_at |-> Now]
           ins == InsertMonth(months, fresh)
       IN
       IF ins.error # "none"
          THEN /\ dash' = [dash EXCEPT ![t].pc = "idle", ![t].error = ins.error]
               /\ UNCHANGED <<months, ids>>
          ELSE /\ months' = ins.rows
               /\ ids' = [ids EXCEPT !.months = @ + 1]
               /\ dash' = [dash EXCEPT ![t] = LoadLists(@, MonthColumns(fresh),
                                                        expenses, assets, goals)]
    /\ UNCHANGED <<goals, expenses, assets, inflight, nreq, last, hist, calc, view, ui>>

\* what the user may have typed into the budget field (a numeral stands for
\* the text that spells it)
BudgetInputs == {JNum(5), JNum(-1), JStr(S_abc)}

\* saveMonthSettings(): update the month row with the typed currency and
\* n(budgetInput), then load()
DashSaveMonthSettings(t) ==
    \E budgetInput \in BudgetInputs, currencyInput \in {S_usd} :
        LET hit == WhereUserMonth(months, SessionUser, DashMonth)
            Patch(r) == [r EXCEPT !.currency = ToUpperCase(currencyInput),
                                  !.budget = n(budgetInput)]
            after == (months \ hit) \cup {Patch(r) : r \in hit}
        IN
        /\ dash[t].pc = "idle"
        /\ months' = after
        /\ dash' = [dash EXCEPT ![t] = LoadMonth(@, after, expenses, assets, goals)]
        /\ nreq' = nreq + 1
        /\ UNCHANGED <<goals, expenses, assets, ids, inflight, last, hist, calc, view, ui>>

\* what the user may have typed into the expense amount field
ExpenseInputs == {JNum(1), JNum(2), JNum(0)}

\* addExpense(): setError(null); an amount that is not positive gets a nudge
\* and nothing else; otherwise the expense is inserted and the page load()s
DashAddExpense(t) ==
    \E expAmount \in ExpenseInputs :
        LET amt == n(expAmount)
            row == [id |-> ids.expenses, user_id |-> SessionUser, month |-> DashMonth,
                    amount |-> amt, category |-> S_Other, description |-> JNull,
                    occurred_at |-> Now]
            after == expenses \cup {row}
        IN
        /\ dash[t].pc = "idle"
        /\ IF amt <= 0
              THEN /\ dash' = [dash EXCEPT ![t].error = "none"]
                   /\ UNCHANGED <<expenses, ids>>
              ELSE /\ expenses' = after
                   /\ ids' = [ids EXCEPT !.expenses = @ + 1]
                   /\ dash' = [dash EXCEPT ![t] = LoadMonth(@, months, after, assets, goals)]
        /\ nreq' = nreq + 1
        /\ UNCHANGED <<goals, assets, months, inflight, last, hist, calc, view, ui>>

\* two tabs of the page, and the month settings endpoint beside them
OpenDash == nreq < MaxDashReq

NextDash ==
    \/ \E t \in Tabs : OpenDash /\ DashLoad(t)
    \/ \E t \in Tabs : DashLoadInsert(t)
    \/ \E t \in Tabs : OpenDash /\ DashSaveMonthSettings(t)
    \/ \E t \in Tabs : OpenDash /\ DashAddExpense(t)
    \/ OpenDash /\ MonthsPUT

SpecDash == Init /\ [][NextDash]_vars

\* one tab of the page on a month that already holds k expenses, each made at
\* its own moment before the page was opened
InitSpent ==
    \E k \in 0..MaxExpenses :
        /\ goals = {}
        /\ expenses = {[id |-> i, user_id |-> SessionUser, month |-> DashMonth,
                        amount |-> 1 + (i % 2), category |-> S_Other,
                        description |-> JNull, occurred_at |-> i - k] : i \in 1..k}
        /\ assets = {}
        /\ months = {[id |-> 1, user_id |-> SessionUser, month |-> DashMonth,
                      currency |-> S_GHS, budget |-> 0, assets |-> 0, liabilities |-> 0,
                      updated_at |-> 0]}
        /\ ids = [goals |-> 1, expenses |-> k + 1, assets |-> 1, months |-> 2]
        /\ inflight = {}
        /\ nreq = 0
        /\ last = NoRequest
        /\ hist = << >>
        /\ calc = NoCalc
        /\ dash = [t \in Tabs |-> NoTab]
        /\ view = NoView
        /\ ui = NoUi

OpenSpent == nreq < MaxSpentReq

NextSpent ==
    \/ OpenSpent /\ DashLoad("tab1")
    \/ OpenSpent /\ DashAddExpense("tab1")

SpecSpent == InitSpent /\ [][NextSpent]_vars

\* the page renders: the derived values are recomputed from the tab's lists,
\* on whatever day the user has the page open
Render ==
    \E cmp \in {-1, 0, 1}, dayOfMonth \in {1, 4, 31} :
        LET tab == dash["tab1"]
            clock == [cmp |-> cmp, dayOfMonth |-> dayOfMonth]
            sorted == sortedGoals(tab.goals)
        IN
        /\ view' = [rendered |-> TRUE,
                    clock |-> clock,
                    spentTotal |-> spentTotal(tab.expenses),
                    sortedGoals |-> sorted,
                    nextMove |-> nextMove(sorted),
                    analytics |-> analytics(DashMonth, spentTotal(tab.expenses), clock),
                    achievements |-> achievements(tab.expenses, tab.assets, tab.goals)]
        /\ UNCHANGED <<goals, expenses, assets, months, ids, inflight, nreq, last, hist,
                       calc, dash, ui>>

\* the goals a month may hold when the page is opened: <<target, saved>>, in
\* hundredths; a saved amount above the target is what a lowered target leaves
GoalShapes == {<<4, 0>>, <<4, 1>>, <<4, 4>>, <<200, 99>>, <<250, 100>>, <<3, 5>>}

\* one tab of the page on a month that holds up to MaxGoals goals (the first
\* two created at the same instant), some expenses and at most one asset
InitView ==
    \E k \in 0..MaxGoals, c \in {0, 4, 5, 9, 10}, a \in {0, 1} :
      \E shape \in [1..k -> GoalShapes] :
        /\ goals = {[id |-> i, user_id |-> SessionUser, month |-> DashMonth,
                     title |-> S_Fund, target_amount |-> shape[i][1],
                     saved_amount |-> shape[i][2], created_at |-> (i + 1) \div 2,
                     updated_at |-> 2] : i \in 1..k}
        /\ expenses = {[id |-> i, user_id |-> SessionUser, month |-> DashMonth,
                        amount |-> 100 + 49 * i, category |-> S_Other,
                        description |-> JNull, occurred_at |-> i - c] : i \in 1..c}
        /\ assets = {[id |-> i, user_id |-> SessionUser, month |-> DashMonth,
                      amount |-> 1, note |-> JNull, created_at |-> 0] : i \in 1..a}
        /\ months = {[id |-> 1, user_id |-> SessionUser, month |-> DashMonth,
                      currency |-> S_GHS, budget |-> 0, assets |-> 0, liabilities |-> 0,
                      updated_at |-> 0]}
        /\ ids = [goals |-> k + 1, expenses |-> c + 1, assets |-> a + 1, months |-> 2]
        /\ inflight = {}
        /\ nreq = 0
        /\ last = NoRequest
        /\ hist = << >>
        /\ calc = NoCalc
        /\ dash = [t \in Tabs |-> NoTab]
        /\ view = NoView
        /\ ui = NoUi

\* the page loads, then renders what it loaded; a render overwrites all of
\* view, so a run renders once: a second render reaches no state that a first
\* one does not
NextView ==
    \/ nreq < MaxViewLoads /\ ~view.rendered /\ DashLoad("tab1")
    \/ ~view.rendered /\ Render

SpecView == InitView /\ [][NextView]_vars

(***************************************************************************)
(* src/app/api/assets/route.ts, the dashboard page that goes through the   *)
(* API routes.  A page action sends its requests one after the other.      *)
(***************************************************************************)
\* supabase.auth.getSession() of the tab: signed in as the user, or no session
Sessions == {Bearer("tA"), NoHeader}

\* toNumberFromMoneyInput(v): commas taken out (the inputs here have none)
toNumberFromMoneyInput(v) == IF IsFinite(ToNumber(v)) THEN ToNumber(v).v ELSE 0

\* apiFetch(): no token -> throws before any request; an answer that is not ok
\* -> throws json.error, or "Request failed (status)" when the body has none;
\* otherwise the parsed body
apiFetch(sess, resp) ==
    IF getBearer(sess) = NoToken
        THEN [thrown |-> "Unauthorized. Please log in again.", data |-> NoRows]
    ELSE IF resp.status < 200 \/ resp.status > 299
        THEN [thrown |-> IF resp.error # "" THEN resp.error ELSE "Request failed",
              data |-> NoRows]
    ELSE [thrown |-> "none", data |-> resp.data]

\* load(): setError(null), then the month row, the expenses, the assets and the
\* goals are fetched and set in turn; the first fetch that throws ends the load
\* with its message as the error
ApiLoadTab(tab, sess, mths, exps, asts, gls) ==
    LET q == [NoFields EXCEPT !.month = JStr(DashMonth)]
        t0 == [tab EXCEPT !.error = "none"]
        mr == apiFetch(sess, monthsGET(sess, q, mths))
        t1 == [t0 EXCEPT !.monthRow = mr.data[1]]
        ex == apiFetch(sess, expensesGET(sess, q, exps))
        t2 == [t1 EXCEPT !.expenses = ex.data]
        asq == apiFetch(sess, assetsGET(sess, q, asts))
        t3 == [t2 EXCEPT !.assets = asq.data]
        gq == apiFetch(sess, goalsGET(sess, q, gls))
    IN
    IF mr.thrown # "none" THEN [t0 EXCEPT !.error = mr.thrown]
    ELSE IF ex.thrown # "none" THEN [t1 EXCEPT !.error = ex.thrown]
    ELSE IF asq.thrown # "none" THEN [t2 EXCEPT !.error = asq.thrown]
    ELSE IF gq.thrown # "none" THEN [t3 EXCEPT !.error = gq.thrown]
    ELSE [t3 EXCEPT !.goals = gq.data]

ApiLoad(t) ==
    \E sess \in Sessions :
        /\ dash' = [dash EXCEPT ![t] = ApiLoadTab(@, sess, months, expenses, assets, goals)]
        /\ nreq' = nreq + 1
        /\ UNCHANGED <<goals, expenses, assets, months, ids, inflight, last, hist, calc, view, ui>>

\* saveMonthSettings(): PUT /api/months with the typed currency and budget,
\* then load()
ApiSaveMonthSettings(t) ==
    \E sess \in Sessions, budgetInput \in BudgetInputs, currencyInput \in {S_usd} :
        LET body == MonthPut(JStr(DashMonth), JStr(ToUpperCase(currencyInput)),
                             JNum(toNumberFromMoneyInput(budgetInput)))
            out == monthsPUT(sess, body, months, ids.months, Now)
            put == apiFetch(sess, out.resp)
            sent == getBearer(sess) # NoToken
            after == IF sent THEN out.rows ELSE months
        IN
        /\ months' = after
        /\ ids' = IF Cardinality(after) > Cardinality(months)
                     THEN [ids EXCEPT !.months = @ + 1] ELSE ids
        /\ dash' = [dash EXCEPT ![t] =
                IF put.thrown # "none" THEN [@ EXCEPT !.error = put.thrown]
                ELSE ApiLoadTab(@, sess, after, expenses, assets, goals)]
        /\ nreq' = nreq + 1
        /\ UNCHANGED <<goals, expenses, assets, inflight, last, hist, calc, view, ui>>

\* addExpense(): setError(null); an amount that is not positive gets a nudge
\* and nothing else; otherwise POST /api/expenses, then load()
ApiAddExpense(t) ==
    \E sess \in Sessions, expAmount \in ExpenseInputs :
        LET amt == toNumberFromMoneyInput(expAmount)
            body == ExpenseNew(JStr(DashMonth), JNum(amt), JStr(S_Other))
            out == expensesPOST(sess, body, expenses, ids.expenses, Now)
            post == apiFetch(sess, out.resp)
            sent == amt > 0 /\ getBearer(sess) # NoToken
            after == IF sent THEN out.rows ELSE expenses
        IN
        /\ expenses' = after
        /\ ids' = IF sent /\ out.resp.status = 200
                     THEN [ids EXCEPT !.expenses = @ + 1] ELSE ids
        /\ dash' = [dash EXCEPT ![t] =
                IF amt <= 0 THEN [@ EXCEPT !.error = "none"]
                ELSE IF post.thrown # "none" THEN [@ EXCEPT !.error = post.thrown]
                ELSE ApiLoadTab(@, sess, months, after, assets, goals)]
        /\ nreq' = nreq + 1
        /\ UNCHANGED <<goals, assets, months, inflight, last, hist, calc, view, ui>>

OpenApi == nreq < MaxApiDashReq

NextApiDash ==
    \/ OpenApi /\ ApiLoad("tab1")
    \/ OpenApi /\ ApiSaveMonthSettings("tab1")
    \/ OpenApi /\ ApiAddExpense("tab1")

SpecApiDash == Init /\ [][NextApiDash]_vars

(***************************************************************************)
(* src/app/api/assets/route.ts, the first dashboard page of the file: it   *)
(* reads and writes the store with the filters below and nothing else, on  *)
(* a store that applies no row-level policy of its own.                    *)
(***************************************************************************)
\* ensureMonthRow(targetMonth): select .eq("month", targetMonth).single(); when
\* that gives no single row, insert the default row (no user_id in the
\* payload: the column takes the signed-in user) and return it, or throw
ensureMonthRow(mths, newId, now) ==
    LET hit == {r \in mths : r.month = DashMonth}
        fresh == [id |-> newId, user_id |-> SessionUser, month |-> DashMonth,
                  currency |-> S_GHS, budget |-> 0, assets |-> 0, liabilities |-> 0,
                  updated_at |-> now]
        ins == InsertMonth(mths, fresh)
    IN
    IF Cardinality(hit) = 1
        THEN [rows |-> mths, row |-> MonthColumns(CHOOSE r \in hit : TRUE), thrown |-> "none"]
    ELSE IF ins.error # "none" THEN [rows |-> mths, row |-> JNull, thrown |-> ins.error]
    ELSE [rows |-> ins.rows, row |-> MonthColumns(fresh), thrown |-> "none"]

\* load(): ensureMonthRow, then the expenses and the asset events of the month
PolicyLoad(t) ==
    LET mrow == ensureMonthRow(months, ids.months, Now)
        ofMonth(rows) == {r \in rows : r.month = DashMonth}
    IN
    /\ months' = mrow.rows
    /\ ids' = IF mrow.rows # months THEN [ids EXCEPT !.months = @ + 1] ELSE ids
    /\ dash' = [dash EXCEPT ![t] =
            IF mrow.thrown # "none" THEN [@ EXCEPT !.error = mrow.thrown]
            ELSE [@ EXCEPT !.error = "none",
                           !.monthRow = mrow.row,
                           !.expenses = Limit(OrderLatestFirst(ofMonth(expenses)), UiPageSize),
                           !.assets = Limit(OrderNewestFirst(ofMonth(assets)), UiPageSize)]]
    /\ nreq' = nreq + 1
    /\ UNCHANGED <<goals, expenses, assets, inflight, last, hist, calc, view, ui>>

\* deleteExpense(id) on a row of the page's list: delete().eq("id", id), then
\* the row is taken out of the list
PolicyDeleteExpense(t) ==
    \E i \in 1..Len(dash[t].expenses) :
        LET id == dash[t].expenses[i].id IN
        /\ expenses' = {r \in expenses : r.id # id}
        /\ dash' = [dash EXCEPT ![t].error = "none",
                                ![t].expenses = SelectSeq(@, LAMBDA x : x.id # id)]
        /\ nreq' = nreq + 1
        /\ UNCHANGED <<goals, assets, months, ids, inflight, last, hist, calc, view, ui>>

\* one tab of that page, beside the requests of both users to the API
NextNoPolicy ==
    \/ nreq < MaxPolicyReq /\ ExpensesPOST
    \/ nreq < MaxPolicyReq /\ MonthsPUT
    \/ nreq < MaxPolicyReq /\ PolicyLoad("tab1")
    \/ nreq < MaxPolicyReq /\ PolicyDeleteExpense("tab1")

SpecNoPolicy == Init /\ [][NextNoPolicy]_vars

(***************************************************************************)
(* src/app/dashboard/page.tsx: the busy flag of the expense actions and    *)
(* the requests the actions have in flight.                                *)
(***************************************************************************)
\* the flag left as it is, the finally block skipped
Finally_Skipped(u) == u

\* finally { setSavingExpenseId(null) }
Finally(u) == [u EXCEPT !.savingExpenseId = {}]

\* the user presses "Add expense" (target 0) or the delete button of a listed
\* expense: addExpense() / deleteExpense(id) up to the first request.  A flag
\* equal to the target returns at once; an early return (no signed-in user, an
\* amount that is not positive) sets the flag and clears it again; otherwise
\* the flag is set and the write goes out
UiStart ==
    \E i \in 0..Len(dash["tab1"].expenses), signedIn \in BOOLEAN,
       expAmount \in {JNum(1), JNum(0)} :
        LET target == IF i = 0 THEN 0 ELSE dash["tab1"].expenses[i].id
            amt == n(expAmount)
            req == [seq |-> nreq + 1, target |-> target, amount |-> amt,
                    stage |-> "write", load |-> 0, data |-> NoTab]
        IN
        /\ nreq' = nreq + 1
        /\ IF ui.savingExpenseId = {target}
              THEN UNCHANGED <<ui, dash>>
              ELSE /\ dash' = [dash EXCEPT !["tab1"].error = "none"]
                   /\ ui' = IF ~signedIn \/ (target = 0 /\ amt <= 0)
                               THEN Finally([ui EXCEPT !.savingExpenseId = {target}])
                               ELSE [ui EXCEPT !.savingExpenseId = {target},
                                               !.pending = @ \cup {req}]
        /\ UNCHANGED <<goals, expenses, assets, months, ids, inflight, last, hist, calc, view>>

\* the store executes the action's insert or delete and, the answer being ok,
\* the action calls load(), whose selects the store executes in their turn
UiWriteDone ==
    \E p \in ui.pending :
        LET row == [id |-> ids.expenses, user_id |-> SessionUser, month |-> DashMonth,
                    amount |-> p.amount, category |-> S_Other, description |-> JNull,
                    occurred_at |-> Now]
            after == IF p.target = 0 THEN expenses \cup {row}
                     ELSE expenses \ WhereIdUser(expenses, p.target, SessionUser)
            got == LoadMonth(NoTab, months, after, assets, goals)
        IN
        /\ p.stage = "write"
        /\ expenses' = after
        /\ ids' = IF p.target = 0 THEN [ids EXCEPT !.expenses = @ + 1] ELSE ids
        /\ ui' = [ui EXCEPT !.issued = @ + 1,
                            !.latest = got,
                            !.pending = (@ \ {p}) \cup
                                {[p EXCEPT !.stage = "load", !.load = ui.issued + 1,
                                           !.data = got]}]
        /\ UNCHANGED <<goals, assets, months, inflight, nreq, last, hist, calc, dash, view>>

\* the answers of a load() reach the page: its month row and lists are set,
\* and the action that called it ends with its finally block
UiLoadDone ==
    \E p \in ui.pending :
        /\ p.stage = "load"
        /\ dash' = [dash EXCEPT !["tab1"] = p.data]
        /\ ui' = Finally([ui EXCEPT !.pending = @ \ {p}])
        /\ UNCHANGED <<goals, expenses, assets, months, ids, inflight, nreq, last, hist,
                       calc, view>>

\* one tab of the page on a month whose settings row exists
InitUi ==
    /\ goals = {}
    /\ expenses = {}
    /\ assets = {}
    /\ months = {[id |-> 1, user_id |-> SessionUser, month |-> DashMonth,
                  currency |-> S_GHS, budget |-> 0, assets |-> 0, liabilities |-> 0,
                  updated_at |-> 0]}
    /\ ids = [goals |-> 1, expenses |-> 1, assets |-> 1, months |-> 2]
    /\ inflight = {}
    /\ nreq = 0
    /\ last = NoRequest
    /\ hist = << >>
    /\ calc = NoCalc
    /\ dash = [t \in Tabs |-> NoTab]
    /\ view = NoView
    /\ ui = NoUi

NextUi ==
    \/ nreq < MaxUiReq /\ UiStart
    \/ UiWriteDone
    \/ UiLoadDone

SpecUi == InitUi /\ [][NextUi]_vars

\* every request that was sent is answered
FairUi == SpecUi /\ WF_vars(UiWriteDone) /\ WF_vars(UiLoadDone)

(***************************************************************************)
(* Properties.                                                             *)
(***************************************************************************)
Tables == <<goals, expenses, assets, months>>

\* the user a request's credentials stand for, NoUser when it carries none or
\* they resolve to no user
CallerOf(h) == GetUser(h.token)

\* this step receives a request and answers it, or resumes one and answers it:
\* last' is the answer
Answered ==
    \/ nreq' = nreq + 1 /\ inflight' = inflight
    \/ nreq' = nreq /\ inflight' # inflight

\* this step receives a request that then awaits its second store call
Suspended == nreq' = nreq + 1 /\ inflight' # inflight

Foreign(rows, u) == {r \in rows : r.user_id # u}
Own(rows, u) == {r \in rows : r.user_id = u}

\* the handlers the route modules export
Handlers ==
    {"months.GET", "months.PUT",
     "expenses.POST", "expenses.PATCH", "expenses.DELETE",
     "assets.GET", "assets.POST", "assets.DELETE",
     "goals.GET", "goals.POST", "goals.PATCH", "goals.DELETE"}

\* C1: on every handler a request without credentials, or whose token resolves
\* to no user, is answered 401 Unauthorized and leaves every table as it was; no
\* such request gets as far as awaiting a store call.
C1_UnauthorizedRejected ==
    [][ /\ Suspended => \A p \in inflight' \ inflight : CallerOf(p.hdr) # NoUser
        /\ (Answered /\ last'.op \in Handlers /\ CallerOf(last'.hdr) = NoUser)
              => /\ last'.status = 401
                 /\ last'.error = "Unauthorized"
                 /\ Tables' = Tables ]_vars

\* a delete with a stale token, aimed at a row that exists, was answered 401
C1_Witness ==
    /\ last.op = "goals.DELETE"
    /\ last.hdr = Bearer("stale")
    /\ last.status = 401
    /\ \E g \in goals : last.req.id = JNum(g.id)

\* C2: whatever a caller's request (an Update, a Delete or a goal add-progress
\* among them) names as id, every row owned by another user is still in its
\* table, unchanged in every field, after the request has been answered; a
\* request that is awaiting its second store call has changed nothing.
C2_OwnershipScoping ==
    [][ /\ Suspended => Tables' = Tables
        /\ Answered =>
              LET u == CallerOf(last'.hdr) IN
              /\ Foreign(goals, u) \subseteq goals'
              /\ Foreign(expenses, u) \subseteq expenses'
              /\ Foreign(assets, u) \subseteq assets'
              /\ Foreign(months, u) \subseteq months' ]_vars

\* A's delete named a goal of B, was answered 200, and the goal is still there
C2_Witness ==
    /\ last.op = "goals.DELETE"
    /\ last.status = 200
    /\ CallerOf(last.hdr) = "A"
    /\ \E g \in goals : g.user_id = "B" /\ last.req.id = JNum(g.id)

\* C3: a goals or assets list, or a month-settings read, by caller u for month m
\* returns only rows of u and of m, and returns what it would return from a
\* store holding u's rows alone.
C3_ReadIsolation ==
    (last.status = 200 /\ last.op \in {"goals.GET", "assets.GET", "months.GET"}) =>
        LET u == CallerOf(last.hdr)
            m == last.req.month.s
        IN
        /\ \A i \in 1..Len(last.data) :
              last.data[i].user_id = u /\ last.data[i].month = m
        /\ last.op = "goals.GET" =>
              last.data = goalsGET(last.hdr, last.req, Own(goals, u)).data
        /\ last.op = "assets.GET" =>
              last.data = assetsGET(last.hdr, last.req, Own(assets, u)).data
        /\ last.op = "months.GET" =>
              last.data = monthsGET(last.hdr, last.req, Own(months, u)).data

\* a list was answered while another user had a goal in the month asked for
C3_Witness ==
    /\ last.op = "goals.GET"
    /\ last.status = 200
    /\ \E g \in goals : g.user_id # CallerOf(last.hdr) /\ g.month = last.req.month.s

\* C4: every stored goal with a positive target has 0 <= saved_amount <=
\* target_amount, also after an edit that lowers the target below what is saved.
C4_SavedWithinTarget ==
    \A g \in goals :
        g.target_amount > 0 => (0 <= g.saved_amount /\ g.saved_amount <= g.target_amount)

\* C5: one add-progress request of amount a on a goal with saved S and target T
\* succeeds and writes S + min(a, max(0, T - S)) when T > 0, which is S when
\* S >= T and min(T, S + a) when S <= T, and writes S + a when T <= 0.
C5_AddProgressCap ==
    calc.status # 0 =>
        LET S == calc.saved
            T == calc.target
            a == calc.add_amount
        IN
        /\ calc.status = 200
        /\ T <= 0 => calc.written = S + a
        /\ (T > 0 /\ S >= T) => calc.written = S
        /\ (T > 0 /\ S <= T) => calc.written = Min(T, S + a)

\* target 10.00, saved 9.00, add 3.00: saved becomes 10.00, not 12.00
C5_Witness ==
    calc = [saved |-> 9, target |-> 10, add_amount |-> 3, written |-> 10, status |-> 200]

\* C6: a goal's saved amount starts at 0 and no write to it, under any
\* interleaving of requests, stores less than the value stored before.
C6_SavedMonotonic ==
    [][ /\ \A g \in goals : \A g2 \in goals' :
              g2.id = g.id => g2.saved_amount >= g.saved_amount
        /\ \A g2 \in goals' :
              (\A g \in goals : g.id # g2.id) => g2.saved_amount = 0 ]_vars

\* p is num / den rounded to the nearest integer, halves upwards
IsNearest(p, num, den) ==
    /\ 2 * den * p <= 2 * num + den
    /\ 2 * num + den < 2 * den * (p + 1)

\* C7: with requests answered one after another, a goal created with target
\* T > 0 and never edited, after add-progress requests of amounts a1..ak (none
\* yet: saved 0, 0 percent, not complete), has saved_amount = min(T, a1+...+ak),
\* a percentage equal to 100 * saved / T rounded and within 0..100, and is
\* complete exactly when saved >= T.
C7_GoalLifecycle ==
    \A g \in goals :
        ~hist[g.id].edited =>
            LET T == hist[g.id].target0
                sum == hist[g.id].sum
                p == goalProgress(g)
            IN
            /\ T > 0 /\ g.target_amount = T
            /\ g.saved_amount = Min(T, sum)
            /\ p.pct \in 0..100
            /\ IsNearest(p.pct, 100 * g.saved_amount, T)
            /\ p.complete <=> g.saved_amount >= T
            /\ sum = 0 => (g.saved_amount = 0 /\ p.pct = 0 /\ ~p.complete)

\* target 3, add 2 (saved 2, 67 percent, not complete), add 2 again: capped to 1,
\* saved 3, 100 percent, complete
C7_Witness ==
    \E g \in goals :
        /\ inflight = {}
        /\ ~hist[g.id].edited
        /\ hist[g.id].target0 = 3
        /\ hist[g.id].sum = 4
        /\ g.saved_amount = 3
        /\ goalProgress(g).pct = 100
        /\ goalProgress(g).complete

StoredPositive ==
    /\ \A e \in expenses : e.amount > 0
    /\ \A a \in assets : a.amount > 0
    /\ \A g \in goals : g.target_amount > 0

\* the field is in the body and Number() of it is 0, negative or not finite
BadNumber(x) ==
    /\ x.t # "absent"
    /\ ~IsFinite(ToNumber(x)) \/ ToNumber(x).v <= 0

\* the request is a create or an update that carries such an amount or target
CarriesBadAmount(op, req) ==
    \/ op \in {"expenses.POST", "expenses.PATCH", "assets.POST"} /\ BadNumber(req.amount)
    \/ op \in {"goals.POST", "goals.PATCH"} /\ BadNumber(req.target_amount)

\* the smallest positive amount, 0.01, in an otherwise well-formed create
SmallestAccepted ==
    (/\ Answered
     /\ CallerOf(last'.hdr) # NoUser
     /\ last'.op \in {"expenses.POST", "assets.POST"}
     /\ last'.req.month = M01
     /\ last'.req.amount = JNum(1))
        => /\ last'.status = 200
           /\ last'.op = "expenses.POST" => \E e \in expenses' \ expenses : e.amount = 1
           /\ last'.op = "assets.POST" => \E a \in assets' \ assets : a.amount = 1

C9_MonthKeysValid ==
    /\ \A r \in goals \cup expenses \cup assets \cup months : MonthPatternTest(r.month)
    /\ (/\ last.op \in {"months.PUT", "expenses.POST", "assets.POST", "goals.POST"}
        /\ CallerOf(last.hdr) # NoUser
        /\ last.req.month = M13)
          => last.status = 400

\* what the endpoints document as input they refuse
MonthMissing(x) == ~Truthy(x)
MonthInvalid(x) == ~Truthy(x) \/ ~MonthPatternTest(Trim(x.s))
IdInvalid(x) == ~IsFinite(ToNumber(x)) \/ ToNumber(x).v <= 0
NotPositiveNumber(x) == ~IsFinite(ToNumber(x)) \/ ToNumber(x).v <= 0
NegativeNumber(x) == ~IsFinite(ToNumber(x)) \/ ToNumber(x).v < 0
TitleBlank(x) == ~Truthy(x) \/ Trim(x.s) = << >>

InvalidInput(op, req) ==
    CASE op \in {"goals.GET", "assets.GET", "months.GET"} -> MonthMissing(req.month)
      [] op \in {"goals.DELETE", "expenses.DELETE", "assets.DELETE"} -> IdInvalid(req.id)
      [] op = "goals.POST" ->
            \/ ~req.parsable
            \/ MonthInvalid(req.month)
            \/ TitleBlank(req.title)
            \/ NotPositiveNumber(req.target_amount)
      [] op = "goals.PATCH" ->
            \/ ~req.parsable
            \/ IdInvalid(req.id)
            \/ NotNullish(req.add_amount) /\ NotPositiveNumber(req.add_amount)
            \/ /\ ~NotNullish(req.add_amount)
               /\ \/ NotNullish(req.title) /\ TitleBlank(req.title)
                  \/ NotNullish(req.target_amount) /\ NotPositiveNumber(req.target_amount)
      [] op = "expenses.POST" ->
            ~req.parsable \/ MonthMissing(req.month) \/ NotPositiveNumber(req.amount)
      [] op = "expenses.PATCH" ->
            ~req.parsable \/ IdInvalid(req.id) \/ NotPositiveNumber(req.amount)
      [] op = "assets.POST" ->
            ~req.parsable \/ MonthInvalid(req.month) \/ NotPositiveNumber(req.amount)
      [] op = "months.PUT" ->
            ~req.parsable \/ MonthInvalid(req.month) \/ NegativeNumber(req.budget)
      [] OTHER -> FALSE

\* C10: every endpoint runs the gate, then validation, then the store: without a
\* valid token the answer is 401 whatever the input, and with one an input that
\* fails validation (an unparsable body among them) is answered 400 before any
\* store call.
C10_GateThenValidation ==
    last.op \in Handlers =>
        /\ CallerOf(last.hdr) = NoUser => (last.status = 401 /\ last.calls = 0)
        /\ (CallerOf(last.hdr) # NoUser /\ InvalidInput(last.op, last.req))
              => (last.status = 400 /\ last.calls = 0)

\* the request names, as id, no row of the caller in the table it updates
NoRowOfCaller(op, req, u) ==
    \/ /\ op = "expenses.PATCH"
       /\ n(req.id) # 0
       /\ WhereIdUser(expenses, n(req.id), u) = {}
    \/ /\ op = "goals.PATCH"
       /\ IsFinite(ToNumber(req.id))
       /\ ToNumber(req.id).v > 0
       /\ WhereIdUser(goals, ToNumber(req.id).v, u) = {}

\* C11: an update (expenses PATCH, goals PATCH edit or add-progress) whose id
\* matches no row of the caller, because no such row exists or because it is
\* another user's, is answered with a failure, never with 200, changes nothing,
\* and is answered as it would be were the other users' rows not there.
C11_NoRowUpdateFails ==
    [][ (/\ Answered
         /\ CallerOf(last'.hdr) # NoUser
         /\ NoRowOfCaller(last'.op, last'.req, CallerOf(last'.hdr)))
          => LET u == CallerOf(last'.hdr)
                 alone == IF last'.op = "expenses.PATCH"
                             THEN expensesPATCH(last'.hdr, last'.req, Own(expenses, u)).resp
                             ELSE goalsPATCH(last'.hdr, last'.req, Own(goals, u), Now).resp
             IN
             /\ last'.status # 200
             /\ Tables' = Tables
             /\ last'.status = alone.status
             /\ last'.error = alone.error ]_vars

\* C12: an update writes only the fields its body provides: after an expenses
\* PATCH {id, amount, category?, description?} or a goals PATCH edit
\* {id, title?, target_amount?} answered 200, every field of the updated row
\* that the body omits has the value it had before (updated_at, which the
\* handler stamps, aside).
C12_OnlyProvidedFieldsPatched ==
    [][ (Answered /\ last'.status = 200) =>
          LET u == CallerOf(last'.hdr)
              req == last'.req
          IN
          /\ last'.op = "expenses.PATCH" =>
                \A e \in WhereIdUser(expenses, n(req.id), u) :
                    \E e2 \in expenses' :
                        /\ e2.id = e.id
                        /\ e2.user_id = e.user_id
                        /\ e2.month = e.month
                        /\ e2.occurred_at = e.occurred_at
                        /\ req.amount = Absent => e2.amount = e.amount
                        /\ req.category = Absent => e2.category = e.category
                        /\ req.description = Absent => e2.description = e.description
          /\ (last'.op = "goals.PATCH" /\ ~NotNullish(req.add_amount)) =>
                \A g \in WhereIdUser(goals, ToNumber(req.id).v, u) :
                    \E g2 \in goals' :
                        /\ g2.id = g.id
                        /\ g2.user_id = g.user_id
                        /\ g2.month = g.month
                        /\ g2.created_at = g.created_at
                        /\ g2.saved_amount = g.saved_amount
                        /\ req.title = Absent => g2.title = g.title
                        /\ req.target_amount = Absent => g2.target_amount = g.target_amount
      ]_vars

\* the table a delete works on, and the delete applied to a table
DeleteTable(op, g, e, a) ==
    CASE op = "goals.DELETE" -> g
      [] op = "expenses.DELETE" -> e
      [] op = "assets.DELETE" -> a

DeleteOn(op, h, q, rows) ==
    CASE op = "goals.DELETE" -> goalsDELETE(h, q, rows)
      [] op = "expenses.DELETE" -> expensesDELETE(h, q, rows)
      [] op = "assets.DELETE" -> assetsDELETE(h, q, rows)

\* C13: a delete on goals, expenses or assets by a caller with a well-formed id
\* is answered 200 whether or not the id names a row of the caller; when it
\* names none (no such row, or another user's) no row is removed; the same
\* delete issued again on the resulting store is answered 200 and leaves the
\* store as the first left it.
C13_DeleteIdempotent ==
    [][ (/\ Answered
         /\ last'.op \in {"goals.DELETE", "expenses.DELETE", "assets.DELETE"}
         /\ last'.status \notin {400, 401})
          => LET u == CallerOf(last'.hdr)
                 before == DeleteTable(last'.op, goals, expenses, assets)
                 after == DeleteTable(last'.op, goals', expenses', assets')
                 again == DeleteOn(last'.op, last'.hdr, last'.req, after)
             IN
             /\ last'.status = 200
             /\ WhereIdUser(before, ToNumber(last'.req.id).v, u) = {}
                    => Tables' = Tables
             /\ again.resp.status = 200
             /\ again.rows = after
             /\ (last.op = last'.op /\ last.hdr = last'.hdr /\ last.req = last'.req
                    /\ last.status = 200) => Tables' = Tables ]_vars

\* the owner's delete of the one expense ever created was answered 200 and the
\* expense is gone
C13_Witness ==
    /\ last.op = "expenses.DELETE"
    /\ last.status = 200
    /\ last.req.id = JNum(1)
    /\ ids.expenses = 2
    /\ expenses = {}

\* C14: a GET of /api/expenses by a caller with a non-empty month is answered
\* 200 with the caller's expenses of that month, newest first, at most 200 of
\* them, the empty list when the month has none.
C14_ExpensesList ==
    (/\ last.op = "expenses.GET"
     /\ CallerOf(last.hdr) # NoUser
     /\ Truthy(last.req.month))
        => LET mine == WhereUserMonth(expenses, CallerOf(last.hdr), last.req.month.s)
               got == {last.data[i] : i \in 1..Len(last.data)}
           IN
           /\ last.status = 200
           /\ Len(last.data) = Min(Cardinality(mine), PageSize)
           /\ Cardinality(got) = Len(last.data)
           /\ got \subseteq mine
           /\ \A i, j \in 1..Len(last.data) :
                  i < j => last.data[i].occurred_at >= last.data[j].occurred_at

\* C15: once a read of the month settings of (user, month) has been answered, a
\* row for (user, month) is in the store; when the read found none, the row has
\* budget 0 and currency "GHS".
C15_LazyMonthCreate ==
    [][ (Answered /\ last'.op = "months.GET" /\ last'.status = 200) =>
          LET u == CallerOf(last'.hdr)
              m == last'.req.month.s
          IN
          /\ WhereUserMonth(months', u, m) # {}
          /\ WhereUserMonth(months, u, m) = {} =>
                \A r \in WhereUserMonth(months', u, m) :
                    r.budget = 0 /\ r.currency = S_GHS ]_vars

\* C20: add-progress is atomic: whatever the interleaving of the add-progress
\* requests on a goal (target T > 0, never edited), once none is in flight the
\* saved amount is min(T, sum of the amounts of the requests answered 200), as
\* if they had run one after the other; no contribution is lost.
C20_AddProgressAtomic ==
    inflight = {} =>
        \A g \in goals :
            ~hist[g.id].edited =>
                g.saved_amount = Min(g.target_amount, hist[g.id].sum)

C17_BudgetNonNegative ==
    \A r \in months : r.budget >= 0

\* the sum of the amounts of a set of stored expenses
RECURSIVE StoredTotal(_)
StoredTotal(rows) ==
    IF rows = {} THEN 0
    ELSE LET r == CHOOSE x \in rows : TRUE IN r.amount + StoredTotal(rows \ {r})

\* C18: once the page has loaded, its spentTotal is the sum of the amounts of
\* all of the user's stored expenses of the month, however many there are, and
\* adding one more expense of amount a > 0 (the list then reloaded) makes
\* spentTotal larger by exactly a.
C18_SpentTotal ==
    [][dash'["tab1"].monthRow # JNull =>
          /\ spentTotal(dash'["tab1"].expenses)
                = StoredTotal(WhereUserMonth(expenses', SessionUser, DashMonth))
          /\ (dash["tab1"].monthRow # JNull /\ expenses' # expenses) =>
                spentTotal(dash'["tab1"].expenses)
                  = spentTotal(dash["tab1"].expenses)
                      + StoredTotal(expenses' \ expenses)]_vars

\* C19: when an action of the dashboard or a load ends with an error message,
\* the tab's month row and its expenses, assets and goals lists, and the
\* stored rows, are what they were before the action started.
C19_FailureLeavesStateUnchanged ==
    [][dash'["tab1"].error # "none" =>
          /\ dash'["tab1"].monthRow = dash["tab1"].monthRow
          /\ dash'["tab1"].expenses = dash["tab1"].expenses
          /\ dash'["tab1"].assets = dash["tab1"].assets
          /\ dash'["tab1"].goals = dash["tab1"].goals
          /\ <<goals, expenses, assets, months>>' = <<goals, expenses, assets, months>>]_vars

\* the row of a table with the given id
RowOf(rows, id) == CHOOSE r \in rows : r.id = id

\* the update leaves the ids, owners and months of the goals as they were, and
\* every goal but the one with the given id as it was
OtherGoalsKept(before, after, id) ==
    /\ {r.id : r \in after} = {r.id : r \in before}
    /\ \A r \in before :
          LET q == RowOf(after, r.id) IN
          /\ q.user_id = r.user_id
          /\ q.month = r.month
          /\ r.id # id => q = r

\* C28: a goals PATCH without add_amount (an edit) never changes a goal's
\* saved_amount, month or owner; a goals PATCH with add_amount never changes a
\* goal's title or target_amount, whatever else its body carries; neither
\* changes any other goal row.
C28_PatchFrame ==
    [][/\ (nreq' # nreq /\ inflight' = inflight /\ last'.op = "goals.PATCH") =>
            /\ OtherGoalsKept(goals, goals', ToNumber(last'.req.id).v)
            /\ \A r \in goals : RowOf(goals', r.id).saved_amount = r.saved_amount
       /\ \A p \in inflight \ inflight' :
            /\ OtherGoalsKept(goals, goals', p.id)
            /\ \A r \in goals :
                  /\ RowOf(goals', r.id).title = r.title
                  /\ RowOf(goals', r.id).target_amount = r.target_amount]_vars

\* an add-progress request that also carried a target_amount was answered with
\* the goal, its saved amount raised, while the table held a second goal
C28_Witness ==
    /\ last.op = "goals.PATCH" /\ last.status = 200
    /\ NotNullish(last.req.add_amount) /\ NotNullish(last.req.target_amount)
    /\ last.data[1].saved_amount > 0
    /\ Cardinality(goals) = 2

\* C29: a successful months PUT for (caller, m) leaves exactly one row keyed
\* (caller, m), made if there was none, and changes only that row's currency,
\* budget and updated_at; its assets and liabilities, the caller's other
\* months and all rows of other users stay as they were.  A PUT that is
\* refused changes nothing.
C29_PutFrame ==
    [][(nreq' # nreq /\ last'.op = "months.PUT") =>
          LET u == authedSupabase(last'.hdr).user
              m == Trim(StringOr(last'.req.month, << >>))
          IN
          IF last'.status # 200 THEN months' = months
          ELSE /\ Cardinality(WhereUserMonth(months', u, m)) = 1
               /\ \A r \in months :
                     IF r.user_id = u /\ r.month = m
                        THEN \E q \in months' :
                                /\ q.id = r.id /\ q.user_id = u /\ q.month = m
                                /\ q.assets = r.assets
                                /\ q.liabilities = r.liabilities
                        ELSE r \in months'
               /\ \A q \in months' : q \in months \/ (q.user_id = u /\ q.month = m)]_vars

\* a PUT made the caller's row of a second month beside the first
C29_Witness ==
    /\ last.op = "months.PUT" /\ last.status = 200
    /\ \E r \in months, q \in months :
          r.user_id = q.user_id /\ r.month # q.month /\ q.updated_at = 2

\* C24: sortedGoals is a reordering of the loaded goals in which no complete
\* goal precedes an incomplete one, among goals of equal completeness a higher
\* percentage precedes a lower one, and among goals of equal completeness and
\* percentage the one created later comes first.
C24_GoalRanking ==
    view.rendered =>
        LET s == view.sortedGoals
            l == dash["tab1"].goals
        IN
        /\ Len(s) = Len(l)
        /\ {s[i] : i \in 1..Len(s)} = {l[i] : i \in 1..Len(l)}
        /\ \A i \in 1..Len(s) : \A j \in 1..Len(s) :
              i < j =>
                LET pi == goalProgress(s[i])
                    pj == goalProgress(s[j])
                IN
                /\ ~(pi.complete /\ ~pj.complete)
                /\ pi.complete = pj.complete => pi.pct >= pj.pct
                /\ (pi.complete = pj.complete /\ pi.pct = pj.pct) =>
                      s[i].created_at >= s[j].created_at

\* three goals were ranked into another order than the loaded one: two
\* incomplete goals of equal percentage, the later created first, then a
\* complete goal
C24_Witness ==
    /\ view.rendered
    /\ Len(view.sortedGoals) = 3
    /\ view.sortedGoals # dash["tab1"].goals
    /\ ~goalProgress(view.sortedGoals[1]).complete
    /\ goalProgress(view.sortedGoals[1]).pct = goalProgress(view.sortedGoals[2]).pct
    /\ view.sortedGoals[1].created_at > view.sortedGoals[2].created_at
    /\ ~goalProgress(view.sortedGoals[2]).complete
    /\ goalProgress(view.sortedGoals[3]).complete

C26_Projection ==
    view.rendered =>
        LET a == view.analytics IN
        IF a.daysElapsed > 0
           THEN /\ a.avgDailySpend = MathRound(view.spentTotal, 100 * a.daysElapsed)
                /\ a.projectedSpend = MathRound(a.avgDailySpend * a.dim, 1)
           ELSE a.avgDailySpend = 0 /\ a.projectedSpend = 0

\* C27: the achievements are exact thresholds over the loaded lists: 5 and 10
\* expenses, one asset, one goal, some goal whose goal-progress percentage is
\* at least 50, some goal complete; the tier is Gold if some goal is complete,
\* otherwise Silver with at least 10 expenses, otherwise Bronze.
C27_Achievements ==
    view.rendered =>
        LET tab == dash["tab1"]
            a == view.achievements
            some50 == \E i \in 1..Len(tab.goals) : goalProgress(tab.goals[i]).pct >= 50
            some100 == \E i \in 1..Len(tab.goals) : goalProgress(tab.goals[i]).complete
        IN
        /\ a.track5 <=> Len(tab.expenses) >= 5
        /\ a.track10 <=> Len(tab.expenses) >= 10
        /\ a.firstAsset <=> Len(tab.assets) >= 1
        /\ a.firstGoal <=> Len(tab.goals) >= 1
        /\ a.goal50 <=> some50
        /\ a.goal100 <=> some100
        /\ a.tier = IF some100 THEN "Gold"
                    ELSE IF Len(tab.expenses) >= 10 THEN "Silver" ELSE "Bronze"

\* C23: every store call of the pages carries the signed-in user's id, so on
\* a store without a row-level policy a page still reads only its user's
\* rows and changes only its user's rows.
C23_ScopedWithoutPolicy ==
    [][dash' # dash =>
          /\ \A i \in 1..Len(dash'["tab1"].expenses) :
                dash'["tab1"].expenses[i].user_id = SessionUser
          /\ dash'["tab1"].monthRow # JNull => dash'["tab1"].monthRow.user_id = SessionUser
          /\ {r \in expenses' : r.user_id # SessionUser}
                = {r \in expenses : r.user_id # SessionUser}]_vars

\* C21: while a request started by an action on a target is in flight,
\* invoking the same action on the same target sends no second request,
\* whatever other actions sharing the flag do in between: no two requests in
\* flight have the same target.
C21_NoDuplicateSubmission ==
    \A p \in ui.pending : \A q \in ui.pending : p.target = q.target => p = q

\* C22: once every load in flight has completed, the page's month row and
\* lists are those returned to the most recently issued load.
C22_LatestLoadWins ==
    (ui.pending = {} /\ ui.issued > 0) =>
        /\ dash["tab1"].monthRow = ui.latest.monthRow
        /\ dash["tab1"].expenses = ui.latest.expenses
        /\ dash["tab1"].assets = ui.latest.assets
        /\ dash["tab1"].goals = ui.latest.goals

====
